---- MODULE Spec2Model ----
(***************************************************************************)
(* spotify/track.py: the Track and LocalTrack wrappers around libspotify's *)
(* reference-counted sp_track resources.                                   *)
(*                                                                         *)
(* The program's state is the process-wide session slot                    *)
(* (spotify.session_instance) and the wrapper objects, each holding one    *)
(* sp_track pointer with a release hook registered by ffi.gc.  The native  *)
(* library is the environment: per sp_track it keeps a reference count and *)
(* the Loadable state (is_loaded, error); the value a field read returns   *)
(* (name, duration, flags, ...) is whatever the library holds at the time  *)
(* of the call, drawn from the field's domain at each call.  lastCall is   *)
(* what the caller of the last property access observed: the outcome, the  *)
(* value, the native calls made, and the raw value the field read gave.    *)
(***************************************************************************)
EXTENDS Integers, Sequences, FiniteSets, TLC

VARIABLES session_instance, native, wrappers, lastCall

vars == <<session_instance, native, wrappers, lastCall>>

\* ---------------------------------------------------------------- bounds
NumResources == 2
MaxWrappers == 2

Resources == 1..NumResources
WrapperIds == 1..MaxWrappers

\* ------------------------------------------------- domains of native values
None == "None"
NULL == "NULL"
ErrorCodes == {0, 10, 17}
FlagValues == {0, 1}
DurationValues == {0, 210000}
PopularityValues == {0, 100}
DiscValues == {0, 1}
IndexValues == {0, 3}
NameValues == {<< >>, <<84>>}
AlbumPointers == {NULL, "sp_album"}
OfflineValues == {0, 3}
AvailabilityValues == {0, 1}
Offsets == {0, 1000}
\* an optional argument is << >> (None) or <<value>>
TextValues == {<< >>, <<"A">>}
LengthValues == {<< >>, <<0>>, <<210000>>}

\* ------------------------------------------------------- Python values
\* Every value a caller can observe, as one record shape:
\* t the type, i the integer payload, s the text payload, o the object id.
NoneV == [t |-> "NoneType", i |-> 0, s |-> "", o |-> 0]
IntV(n) == [t |-> "int", i |-> n, s |-> "", o |-> 0]
BoolV(b) == [t |-> "bool", i |-> IF b THEN 1 ELSE 0, s |-> "", o |-> 0]
StrV(s) == [t |-> "unicode", i |-> 0, s |-> s, o |-> 0]
EnumV(cls, n, name) == [t |-> cls, i |-> n, s |-> name, o |-> 0]
TrackV(w) == [t |-> "Track", i |-> 0, s |-> "", o |-> w]
AlbumV(p) == [t |-> "Album", i |-> 0, s |-> p, o |-> 0]
LinkV(w, offset) == [t |-> "Link", i |-> offset, s |-> "", o |-> w]

\* bool(x) of a C int
bool(n) == n # 0

\* ErrorType(n): the enum member of a native sp_error code
ErrorType(n) ==
    EnumV("ErrorType", n,
          CASE n = 0 -> "OK"
            [] n = 10 -> "OTHER_PERMANENT"
            [] n = 17 -> "IS_LOADING"
            [] OTHER -> "UNKNOWN")

\* TrackOfflineStatus(n): SP_TRACK_OFFLINE_ with the prefix stripped
TrackOfflineStatus(n) ==
    EnumV("TrackOfflineStatus", n,
          CASE n = 0 -> "NO"
            [] n = 3 -> "DONE"
            [] OTHER -> "UNKNOWN")

\* TrackAvailability(n): SP_TRACK_AVAILABILITY_ with the prefix stripped
TrackAvailability(n) ==
    EnumV("TrackAvailability", n,
          CASE n = 0 -> "UNAVAILABLE"
            [] n = 1 -> "AVAILABLE"
            [] OTHER -> "UNKNOWN")

\* to_unicode(chars): the text of a native char[], decoded from UTF-8
to_unicode(chars) ==
    CASE chars = << >> -> ""
      [] chars = <<84>> -> "T"
      [] chars = <<65>> -> "A"
      [] OTHER -> "?"

\* to_bytes(value): the UTF-8 bytes of a text
to_bytes(value) ==
    CASE value = "" -> << >>
      [] value = "T" -> <<84>>
      [] value = "A" -> <<65>>
      [] OTHER -> <<63>>

\* Error.maybe_raise(error_type): TRUE when it raises
maybe_raise(error_type) == error_type.s # "OK"

\* --------------------------------------------------------- outcomes
\* calls: the native calls made, in order; read: the raw value the field
\* read returned (empty when no field was read).
Ret(value, calls, read) ==
    [outcome |-> "return", value |-> value, calls |-> calls, read |-> read]
RuntimeError(calls) ==
    [outcome |-> "RuntimeError", value |-> StrV("Session must be initialized"),
     calls |-> calls, read |-> << >>]
LibError(error_type, calls) ==
    [outcome |-> "LibError", value |-> error_type, calls |-> calls, read |-> << >>]

\* ------------------------------------------------------ native library
sp_track_add_ref(nat, r) == [nat EXCEPT ![r].refcount = @ + 1]

\* the resource is freed when its last reference goes
sp_track_release(nat, r) ==
    [nat EXCEPT ![r].refcount = @ - 1,
                ![r].alloc = IF nat[r].refcount = 1 THEN "freed" ELSE @]

sp_track_is_loaded(r) == native[r].is_loaded
sp_track_error(r) == native[r].error

Live(r) == native[r].alloc = "live"
Alive(w) == wrappers[w].state = "alive"
Unborn == {w \in WrapperIds : wrappers[w].state = "unborn"}
\* ids are handed out in order
NewWrapper == CHOOSE w \in Unborn : \A v \in Unborn : w <= v

NoTrack == [alloc |-> "unallocated", refcount |-> 0, held |-> FALSE,
            is_loaded |-> 0, error |-> 0]
NoWrapper == [state |-> "unborn", sp_track |-> 0, add_ref |-> FALSE,
              addrefs |-> 0, releases |-> 0]

\* ================================================================ Track
\* mutant: the default were add_ref=False
Track_default_add_ref_False == FALSE

\* Track(sp_track) without an add_ref argument: the default of __init__
Track_default_add_ref == TRUE

\* mutant: __init__ adds a reference whatever add_ref says
Track__init__AlwaysAddRef(w, sp_track, add_ref, nat) ==
    /\ native' = sp_track_add_ref(nat, sp_track)
    /\ wrappers' = [wrappers EXCEPT ![w] =
            [state |-> "alive", sp_track |-> sp_track, add_ref |-> add_ref,
             addrefs |-> 1, releases |-> 0]]

\* Track.__init__(self, sp_track, add_ref) on the native state nat;
\* ffi.gc registers sp_track_release as the wrapper's release hook.
Track__init__(w, sp_track, add_ref, nat) ==
    /\ native' = IF add_ref THEN sp_track_add_ref(nat, sp_track) ELSE nat
    /\ wrappers' = [wrappers EXCEPT ![w] =
            [state |-> "alive", sp_track |-> sp_track, add_ref |-> add_ref,
             addrefs |-> IF add_ref THEN 1 ELSE 0, releases |-> 0]]

\* mutant: the pointer is stored without ffi.gc, so nothing is released
ffi_gc_release_Missing(w) ==
    /\ native' = native
    /\ wrappers' = [wrappers EXCEPT ![w].state = "dead"]

\* the release hook ffi.gc runs when the wrapper is collected
ffi_gc_release(w) ==
    /\ native' = sp_track_release(native, wrappers[w].sp_track)
    /\ wrappers' = [wrappers EXCEPT ![w].state = "dead", ![w].releases = @ + 1]

is_loaded(w) ==
    Ret(BoolV(bool(sp_track_is_loaded(wrappers[w].sp_track))),
        <<"sp_track_is_loaded">>, << >>)

error(w) ==
    Ret(ErrorType(sp_track_error(wrappers[w].sp_track)),
        <<"sp_track_error">>, << >>)

\* mutant: offline_status checks the session slot like availability
offline_status_SessionGated(w, v) ==
    IF session_instance = None THEN RuntimeError(<< >>)
    ELSE LET e == error(w) IN
         IF maybe_raise(e.value) THEN LibError(e.value, e.calls)
         ELSE Ret(TrackOfflineStatus(v),
                  e.calls \o <<"sp_track_offline_get_status">>, <<v>>)

offline_status(w, v) ==
    LET e == error(w) IN
    IF maybe_raise(e.value) THEN LibError(e.value, e.calls)
    ELSE Ret(TrackOfflineStatus(v),
             e.calls \o <<"sp_track_offline_get_status">>, <<v>>)

\* mutant: the error is checked before the session slot
availability_ErrorFirst(w, v) ==
    LET e == error(w) IN
    IF maybe_raise(e.value) THEN LibError(e.value, e.calls)
    ELSE IF session_instance = None THEN RuntimeError(e.calls)
    ELSE Ret(TrackAvailability(v),
             e.calls \o <<"sp_track_get_availability">>, <<v>>)

availability(w, v) ==
    IF session_instance = None THEN RuntimeError(<< >>)
    ELSE LET e == error(w) IN
         IF maybe_raise(e.value) THEN LibError(e.value, e.calls)
         ELSE Ret(TrackAvailability(v),
                  e.calls \o <<"sp_track_get_availability">>, <<v>>)

is_local(w, v) ==
    IF session_instance = None THEN RuntimeError(<< >>)
    ELSE LET e == error(w) IN
         IF maybe_raise(e.value) THEN LibError(e.value, e.calls)
         ELSE LET l == is_loaded(w) IN
              IF l.value.i = 0 THEN Ret(NoneV, e.calls \o l.calls, << >>)
              ELSE Ret(BoolV(bool(v)),
                       e.calls \o l.calls \o <<"sp_track_is_local">>, <<v>>)

is_autolinked(w, v) ==
    IF session_instance = None THEN RuntimeError(<< >>)
    ELSE LET e == error(w) IN
         IF maybe_raise(e.value) THEN LibError(e.value, e.calls)
         ELSE LET l == is_loaded(w) IN
              IF l.value.i = 0 THEN Ret(NoneV, e.calls \o l.calls, << >>)
              ELSE Ret(BoolV(bool(v)),
                       e.calls \o l.calls \o <<"sp_track_is_autolinked">>, <<v>>)

\* t: the sp_track sp_track_get_playable returns; n: the new wrapper
playable(w, t, n) ==
    IF session_instance = None THEN RuntimeError(<< >>)
    ELSE LET e == error(w) IN
         IF maybe_raise(e.value) THEN LibError(e.value, e.calls)
         ELSE Ret(TrackV(n),
                  e.calls \o <<"sp_track_get_playable">>
                    \o (IF Track_default_add_ref THEN <<"sp_track_add_ref">> ELSE << >>),
                  <<t>>)

is_placeholder(w, v) ==
    LET e == error(w) IN
    IF maybe_raise(e.value) THEN LibError(e.value, e.calls)
    ELSE Ret(BoolV(bool(v)), e.calls \o <<"sp_track_is_placeholder">>, <<v>>)

\* mutant: the is_loaded check is missing
is_starred_NoLoadedCheck(w, v) ==
    IF session_instance = None THEN RuntimeError(<< >>)
    ELSE LET e == error(w) IN
         IF maybe_raise(e.value) THEN LibError(e.value, e.calls)
         ELSE Ret(BoolV(bool(v)), e.calls \o <<"sp_track_is_starred">>, <<v>>)

is_starred(w, v) ==
    IF session_instance = None THEN RuntimeError(<< >>)
    ELSE LET e == error(w) IN
         IF maybe_raise(e.value) THEN LibError(e.value, e.calls)
         ELSE LET l == is_loaded(w) IN
              IF l.value.i = 0 THEN Ret(NoneV, e.calls \o l.calls, << >>)
              ELSE Ret(BoolV(bool(v)),
                       e.calls \o l.calls \o <<"sp_track_is_starred">>, <<v>>)

album(w, sp_album) ==
    LET e == error(w) IN
    IF maybe_raise(e.value) THEN LibError(e.value, e.calls)
    ELSE Ret(IF sp_album # NULL THEN AlbumV(sp_album) ELSE NoneV,
             e.calls \o <<"sp_track_album">>, <<sp_album>>)

\* mutant: Error.maybe_raise is not called
name_NoErrorCheck(w, chars) ==
    LET text == to_unicode(chars) IN
    Ret(IF text # "" THEN StrV(text) ELSE NoneV, <<"sp_track_name">>, <<chars>>)

name(w, chars) ==
    LET e == error(w) IN
    IF maybe_raise(e.value) THEN LibError(e.value, e.calls)
    ELSE LET text == to_unicode(chars) IN
         Ret(IF text # "" THEN StrV(text) ELSE NoneV,
             e.calls \o <<"sp_track_name">>, <<chars>>)

\* mutant: duration returns None on an unloaded track, as popularity does
duration_LoadedCheck(w, v) ==
    LET e == error(w) IN
    IF maybe_raise(e.value) THEN LibError(e.value, e.calls)
    ELSE LET l == is_loaded(w) IN
         IF l.value.i = 0 THEN Ret(NoneV, e.calls \o l.calls, << >>)
         ELSE Ret(IF v # 0 THEN IntV(v) ELSE NoneV,
                  e.calls \o l.calls \o <<"sp_track_duration">>, <<v>>)

duration(w, v) ==
    LET e == error(w) IN
    IF maybe_raise(e.value) THEN LibError(e.value, e.calls)
    ELSE Ret(IF v # 0 THEN IntV(v) ELSE NoneV,
             e.calls \o <<"sp_track_duration">>, <<v>>)

\* mutant: a zero popularity is returned as None, as duration does
popularity_ZeroIsNone(w, v) ==
    LET e == error(w) IN
    IF maybe_raise(e.value) THEN LibError(e.value, e.calls)
    ELSE LET l == is_loaded(w) IN
         IF l.value.i = 0 THEN Ret(NoneV, e.calls \o l.calls, << >>)
         ELSE Ret(IF v # 0 THEN IntV(v) ELSE NoneV,
                  e.calls \o l.calls \o <<"sp_track_popularity">>, <<v>>)

popularity(w, v) ==
    LET e == error(w) IN
    IF maybe_raise(e.value) THEN LibError(e.value, e.calls)
    ELSE LET l == is_loaded(w) IN
         IF l.value.i = 0 THEN Ret(NoneV, e.calls \o l.calls, << >>)
         ELSE Ret(IntV(v), e.calls \o l.calls \o <<"sp_track_popularity">>, <<v>>)

disc(w, v) ==
    LET e == error(w) IN
    IF maybe_raise(e.value) THEN LibError(e.value, e.calls)
    ELSE Ret(IF v # 0 THEN IntV(v) ELSE NoneV,
             e.calls \o <<"sp_track_disc">>, <<v>>)

index(w, v) ==
    LET e == error(w) IN
    IF maybe_raise(e.value) THEN LibError(e.value, e.calls)
    ELSE Ret(IF v # 0 THEN IntV(v) ELSE NoneV,
             e.calls \o <<"sp_track_index">>, <<v>>)

link(w) == Ret(LinkV(w, 0), << >>, << >>)

link_with_offset(w, offset) == Ret(LinkV(w, offset), << >>, << >>)

\* ============================================================ LocalTrack
\* convert = lambda value: ffi.NULL if value is None else ffi.new('char[]', to_bytes(value))
convert(value) == IF value = << >> THEN <<NULL>> ELSE <<to_bytes(value[1])>>

\* sp_localtrack_create vends a new track with one reference, owned by the caller
sp_localtrack_create(nat, r) ==
    [nat EXCEPT ![r] = [alloc |-> "live", refcount |-> 1, held |-> FALSE,
                        is_loaded |-> 0, error |-> 0]]

\* the arguments LocalTrack.__init__ hands to sp_localtrack_create
LocalTrack_args(artist, title, album_name, length) ==
    convert(artist) \o convert(title) \o convert(album_name)
      \o (IF length = << >> THEN <<-1>> ELSE length)

\* ================================================================ state
NoCall == [seq |-> 0, op |-> "none", w |-> 0] @@ Ret(NoneV, << >>, << >>)

\* the caller of operation op on wrapper w observes res
Observe(op, w, res) ==
    lastCall' = [seq |-> 1 - lastCall.seq, op |-> op, w |-> w] @@ res

\* No session yet, one track known to the library (which holds the only
\* reference to it), no wrapper constructed.
Init ==
    /\ session_instance = None
    /\ native = [r \in Resources |->
                   IF r = 1 THEN [NoTrack EXCEPT !.alloc = "live", !.refcount = 1,
                                                 !.held = TRUE]
                   ELSE NoTrack]
    /\ wrappers = [w \in WrapperIds |-> NoWrapper]
    /\ lastCall = NoCall

\* ---------------------------------------------------- the environment
\* the session component fills and clears the process-wide slot
SessionStart ==
    /\ session_instance = None
    /\ session_instance' = "Session"
    /\ UNCHANGED <<native, wrappers, lastCall>>

SessionShutdown ==
    /\ session_instance # None
    /\ session_instance' = None
    /\ UNCHANGED <<native, wrappers, lastCall>>

\* the library learns of another track and holds a reference to it
NativeTrackAppears ==
    \E r \in Resources :
        /\ native[r].alloc = "unallocated"
        /\ native' = [native EXCEPT ![r] =
                [NoTrack EXCEPT !.alloc = "live", !.refcount = 1, !.held = TRUE]]
        /\ UNCHANGED <<session_instance, wrappers, lastCall>>

\* the library drops its own reference to a track
NativeRelease ==
    \E r \in Resources :
        /\ Live(r) /\ native[r].held
        /\ native' = [sp_track_release(native, r) EXCEPT ![r].held = FALSE]
        /\ UNCHANGED <<session_instance, wrappers, lastCall>>

\* the session loads the track's metadata, or fails to (metadata_updated)
MetadataUpdated ==
    \E r \in Resources, l \in FlagValues, e \in ErrorCodes :
        /\ Live(r)
        /\ <<l, e>> # <<native[r].is_loaded, native[r].error>>
        /\ native' = [native EXCEPT ![r].is_loaded = l, ![r].error = e]
        /\ UNCHANGED <<session_instance, wrappers, lastCall>>

\* ------------------------------------------------------- the program
\* Track(sp_track) on a pointer a native call returned
TrackInit ==
    \E r \in Resources :
        /\ Unborn # {}
        /\ Live(r)
        /\ Track__init__(NewWrapper, r, Track_default_add_ref, native)
        /\ UNCHANGED <<session_instance, lastCall>>

\* LocalTrack(artist, title, album, length)
LocalTrackInit ==
    \E r \in Resources, artist \in TextValues, title \in TextValues,
       album_name \in TextValues, length \in LengthValues :
        /\ Unborn # {}
        /\ native[r].alloc = "unallocated"
        /\ Track__init__(NewWrapper, r, FALSE, sp_localtrack_create(native, r))
        /\ Observe("LocalTrack", NewWrapper,
                   Ret(TrackV(NewWrapper), <<"sp_localtrack_create">>,
                       LocalTrack_args(artist, title, album_name, length)))
        /\ UNCHANGED session_instance

\* the wrapper is collected: ffi.gc runs its release hook
Finalize ==
    \E w \in WrapperIds :
        /\ Alive(w)
        /\ ffi_gc_release(w)
        /\ UNCHANGED <<session_instance, lastCall>>

Get_is_loaded ==
    \E w \in WrapperIds :
        /\ Alive(w)
        /\ Observe("is_loaded", w, is_loaded(w))
        /\ UNCHANGED <<session_instance, native, wrappers>>

Get_error ==
    \E w \in WrapperIds :
        /\ Alive(w)
        /\ Observe("error", w, error(w))
        /\ UNCHANGED <<session_instance, native, wrappers>>

Get_offline_status ==
    \E w \in WrapperIds, v \in OfflineValues :
        /\ Alive(w)
        /\ Observe("offline_status", w, offline_status(w, v))
        /\ UNCHANGED <<session_instance, native, wrappers>>

Get_availability ==
    \E w \in WrapperIds, v \in AvailabilityValues :
        /\ Alive(w)
        /\ Observe("availability", w, availability(w, v))
        /\ UNCHANGED <<session_instance, native, wrappers>>

Get_is_local ==
    \E w \in WrapperIds, v \in FlagValues :
        /\ Alive(w)
        /\ Observe("is_local", w, is_local(w, v))
        /\ UNCHANGED <<session_instance, native, wrappers>>

Get_is_autolinked ==
    \E w \in WrapperIds, v \in FlagValues :
        /\ Alive(w)
        /\ Observe("is_autolinked", w, is_autolinked(w, v))
        /\ UNCHANGED <<session_instance, native, wrappers>>

\* playable constructs Track(lib.sp_track_get_playable(...)) when it returns
Get_playable ==
    \E w \in WrapperIds, t \in Resources :
        /\ Alive(w)
        /\ Unborn # {}
        /\ Live(t)
        /\ LET res == playable(w, t, NewWrapper) IN
            /\ Observe("playable", w, res)
            /\ IF res.outcome = "return"
               THEN Track__init__(NewWrapper, t, Track_default_add_ref, native)
               ELSE UNCHANGED <<native, wrappers>>
        /\ UNCHANGED session_instance

Get_is_placeholder ==
    \E w \in WrapperIds, v \in FlagValues :
        /\ Alive(w)
        /\ Observe("is_placeholder", w, is_placeholder(w, v))
        /\ UNCHANGED <<session_instance, native, wrappers>>

Get_is_starred ==
    \E w \in WrapperIds, v \in FlagValues :
        /\ Alive(w)
        /\ Observe("is_starred", w, is_starred(w, v))
        /\ UNCHANGED <<session_instance, native, wrappers>>

Get_album ==
    \E w \in WrapperIds, sp_album \in AlbumPointers :
        /\ Alive(w)
        /\ Observe("album", w, album(w, sp_album))
        /\ UNCHANGED <<session_instance, native, wrappers>>

Get_name ==
    \E w \in WrapperIds, chars \in NameValues :
        /\ Alive(w)
        /\ Observe("name", w, name(w, chars))
        /\ UNCHANGED <<session_instance, native, wrappers>>

Get_duration ==
    \E w \in WrapperIds, v \in DurationValues :
        /\ Alive(w)
        /\ Observe("duration", w, duration(w, v))
        /\ UNCHANGED <<session_instance, native, wrappers>>

Get_popularity ==
    \E w \in WrapperIds, v \in PopularityValues :
        /\ Alive(w)
        /\ Observe("popularity", w, popularity(w, v))
        /\ UNCHANGED <<session_instance, native, wrappers>>

Get_disc ==
    \E w \in WrapperIds, v \in DiscValues :
        /\ Alive(w)
        /\ Observe("disc", w, disc(w, v))
        /\ UNCHANGED <<session_instance, native, wrappers>>

Get_index ==
    \E w \in WrapperIds, v \in IndexValues :
        /\ Alive(w)
        /\ Observe("index", w, index(w, v))
        /\ UNCHANGED <<session_instance, native, wrappers>>

Get_link ==
    \E w \in WrapperIds :
        /\ Alive(w)
        /\ Observe("link", w, link(w))
        /\ UNCHANGED <<session_instance, native, wrappers>>

Call_link_with_offset ==
    \E w \in WrapperIds, offset \in Offsets :
        /\ Alive(w)
        /\ Observe("link_with_offset", w, link_with_offset(w, offset))
        /\ UNCHANGED <<session_instance, native, wrappers>>

\* ------------------------------------------------------ specifications
\* Spec: the property accesses of Track on wrappers of library tracks.
Next ==
    \/ SessionStart
    \/ SessionShutdown
    \/ MetadataUpdated
    \/ TrackInit
    \/ Get_is_loaded
    \/ Get_error
    \/ Get_offline_status
    \/ Get_availability
    \/ Get_is_local
    \/ Get_is_autolinked
    \/ Get_playable
    \/ Get_is_placeholder
    \/ Get_is_starred
    \/ Get_album
    \/ Get_name
    \/ Get_duration
    \/ Get_popularity
    \/ Get_disc
    \/ Get_index
    \/ Get_link
    \/ Call_link_with_offset

Spec == Init /\ [][Next]_vars

\* SpecRef: the life of the wrappers and of the references they hold.
NextRef ==
    \/ SessionStart
    \/ SessionShutdown
    \/ NativeTrackAppears
    \/ NativeRelease
    \/ TrackInit
    \/ LocalTrackInit
    \/ Finalize
    \/ Get_playable

SpecRef == Init /\ [][NextRef]_vars

\* =============================================================== claims
\* the step is a construction or a property access on wrapper lastCall'.w
CallStep == lastCall'.seq # lastCall.seq
CallOf(ops) == CallStep /\ lastCall'.op \in ops
\* the sp_track of the wrapper the step's access is made on
SelfTrack == wrappers[lastCall'.w].sp_track
InCalls(c, calls) == \E i \in 1..Len(calls) : calls[i] = c

SessionGated == {"availability", "is_local", "is_autolinked", "playable", "is_starred"}
ErrorGated == SessionGated \cup {"offline_status", "is_placeholder", "album", "name",
                                 "duration", "popularity", "disc", "index"}
FlagRead(op) == CASE op = "is_local" -> "sp_track_is_local"
                  [] op = "is_autolinked" -> "sp_track_is_autolinked"
                  [] op = "is_starred" -> "sp_track_is_starred"
                  [] OTHER -> "none"

AliveOn(r) == {w \in WrapperIds : wrappers[w].state = "alive" /\ wrappers[w].sp_track = r}
Born(r) == {w \in WrapperIds : /\ wrappers[w].state = "unborn"
                                /\ wrappers'[w].state = "alive"
                                /\ wrappers'[w].sp_track = r}
Died(r) == {w \in WrapperIds : /\ wrappers[w].state = "alive"
                                /\ wrappers'[w].state = "dead"
                                /\ wrappers[w].sp_track = r}
\* references the library itself takes or drops in the step, and the one
\* sp_localtrack_create vends
LibDelta(r) ==
    (IF native'[r].held THEN 1 ELSE 0) - (IF native[r].held THEN 1 ELSE 0)
    + (IF native[r].alloc = "unallocated" /\ native'[r].alloc = "live" /\ ~native'[r].held
       THEN 1 ELSE 0)

\* C2: with the session slot empty, availability, is_local, is_autolinked,
\* playable and is_starred raise RuntimeError('Session must be initialized')
\* whatever the track's is_loaded and error are, and make no native call.
C2_SessionFault ==
    [][(CallOf(SessionGated) /\ session_instance = None)
         => /\ lastCall'.outcome = "RuntimeError"
            /\ lastCall'.value.s = "Session must be initialized"
            /\ lastCall'.calls = << >>
            /\ lastCall'.read = << >>
            /\ native' = native /\ wrappers' = wrappers]_vars

C2_Witness ==
    /\ session_instance = None
    /\ lastCall.op = "availability" /\ lastCall.outcome = "RuntimeError"
    /\ native[wrappers[lastCall.w].sp_track].error # 0
    /\ native[wrappers[lastCall.w].sp_track].is_loaded = 1

\* C3 (as claimed): offline_status with no session active raises the
\* liveness fault and makes no native call.
C3_OfflineNeedsSession ==
    [][(CallOf({"offline_status"}) /\ session_instance = None)
         => /\ lastCall'.outcome = "RuntimeError"
            /\ lastCall'.calls = << >>]_vars

\* C3 (amended): offline_status never consults the session slot: with or
\* without a session it queries the error; a non-OK error is raised with no
\* field read, and otherwise the TrackOfflineStatus of the native value is
\* returned.
C3_OfflineIgnoresSession ==
    [][CallOf({"offline_status"})
         => /\ lastCall'.outcome # "RuntimeError"
            /\ native[SelfTrack].error # 0
                 => /\ lastCall'.outcome = "LibError"
                    /\ lastCall'.value.i = native[SelfTrack].error
                    /\ lastCall'.calls = <<"sp_track_error">>
            /\ native[SelfTrack].error = 0
                 => /\ lastCall'.outcome = "return"
                    /\ lastCall'.value.t = "TrackOfflineStatus"
                    /\ lastCall'.read = <<lastCall'.value.i>>
                    /\ lastCall'.calls = <<"sp_track_error", "sp_track_offline_get_status">>]_vars

C3_Witness ==
    /\ session_instance = None
    /\ lastCall.op = "offline_status" /\ lastCall.outcome = "return"
    /\ lastCall.value.s = "DONE"

\* C4: with a session active and a non-OK native error, every error-gated
\* accessor raises an error carrying exactly that code and makes no native
\* call but the error query; is_loaded and error still return, and error
\* reports the code.
C4_ErrorGate ==
    [][(CallStep /\ session_instance # None /\ lastCall'.op # "LocalTrack"
          /\ native[SelfTrack].error # 0)
         => /\ lastCall'.op \in ErrorGated
                 => /\ lastCall'.outcome = "LibError"
                    /\ lastCall'.value.t = "ErrorType"
                    /\ lastCall'.value.i = native[SelfTrack].error
                    /\ lastCall'.calls = <<"sp_track_error">>
                    /\ lastCall'.read = << >>
            /\ lastCall'.op = "is_loaded"
                 => /\ lastCall'.outcome = "return"
                    /\ lastCall'.value.t = "bool"
                    /\ lastCall'.value.i = native[SelfTrack].is_loaded
            /\ lastCall'.op = "error"
                 => /\ lastCall'.outcome = "return"
                    /\ lastCall'.value.t = "ErrorType"
                    /\ lastCall'.value.i = native[SelfTrack].error]_vars

C4_Witness ==
    /\ session_instance # None
    /\ lastCall.op = "name" /\ lastCall.outcome = "LibError"
    /\ lastCall.value.i = 17
    /\ native[wrappers[lastCall.w].sp_track].error = 17

\* C5: with a session active and error OK, is_local, is_autolinked and
\* is_starred return None (not False) on an unloaded track without reading
\* the native flag, and the boolean of the native flag on a loaded one.
C5_FlagsUnknownUntilLoaded ==
    [][(CallOf({"is_local", "is_autolinked", "is_starred"})
          /\ session_instance # None /\ native[SelfTrack].error = 0)
         => /\ lastCall'.outcome = "return"
            /\ native[SelfTrack].is_loaded = 0
                 => /\ lastCall'.value.t = "NoneType"
                    /\ ~InCalls(FlagRead(lastCall'.op), lastCall'.calls)
                    /\ lastCall'.read = << >>
            /\ native[SelfTrack].is_loaded # 0
                 => /\ lastCall'.value.t = "bool"
                    /\ Len(lastCall'.read) = 1
                    /\ InCalls(FlagRead(lastCall'.op), lastCall'.calls)
                    /\ lastCall'.value.i = 1 <=> lastCall'.read[1] # 0
                    /\ lastCall'.value.i = 0 <=> lastCall'.read[1] = 0]_vars

C5_Witness ==
    /\ session_instance # None
    /\ lastCall.op = "is_starred" /\ lastCall.outcome = "return"
    /\ lastCall.value.t = "NoneType"
    /\ native[wrappers[lastCall.w].sp_track].is_loaded = 0
    /\ native[wrappers[lastCall.w].sp_track].error = 0

\* C6 (as claimed): on an unloaded, error-free track name, album and duration
\* return None whatever the native name, album and duration fields hold.
C6_UnloadedFieldsAbsent ==
    [][(CallOf({"name", "album", "duration"})
          /\ native[SelfTrack].is_loaded = 0 /\ native[SelfTrack].error = 0)
         => /\ lastCall'.outcome = "return"
            /\ lastCall'.value.t = "NoneType"]_vars

C8_PopularityZeroAbsent ==
    [][(CallOf({"popularity"}) /\ native[SelfTrack].error = 0)
         => /\ lastCall'.outcome = "return"
            /\ native[SelfTrack].is_loaded = 0
                 => lastCall'.value.t = "NoneType" /\ lastCall'.read = << >>
            /\ native[SelfTrack].is_loaded # 0
                 => /\ Len(lastCall'.read) = 1
                    /\ lastCall'.read[1] = 0 => lastCall'.value.t = "NoneType"
                    /\ lastCall'.read[1] # 0
                         => /\ lastCall'.value.t = "int"
                            /\ lastCall'.value.i = lastCall'.read[1]]_vars

\* C8 (amended): popularity on an error-free track returns None when the
\* track is unloaded, without reading the native field; on a loaded track it
\* returns the native integer unchanged, zero included (0 is returned as 0,
\* not as None).
C8_PopularityAsRead ==
    [][(CallOf({"popularity"}) /\ native[SelfTrack].error = 0)
         => /\ lastCall'.outcome = "return"
            /\ native[SelfTrack].is_loaded = 0
                 => /\ lastCall'.value.t = "NoneType"
                    /\ lastCall'.read = << >>
                    /\ ~InCalls("sp_track_popularity", lastCall'.calls)
            /\ native[SelfTrack].is_loaded # 0
                 => /\ Len(lastCall'.read) = 1
                    /\ lastCall'.value.t = "int"
                    /\ lastCall'.value.i = lastCall'.read[1]]_vars

C8_Witness ==
    /\ lastCall.op = "popularity" /\ lastCall.outcome = "return"
    /\ lastCall.value.t = "int" /\ lastCall.value.i = 0
    /\ lastCall.read = <<0>>
    /\ native[wrappers[lastCall.w].sp_track].is_loaded = 1

\* C1: constructing a wrapper with add_ref true raises its resource's count
\* by exactly one, with add_ref false (LocalTrack adopting the reference
\* sp_localtrack_create vends) by nothing; the wrapper's end of life lowers
\* the count by exactly one in both cases; and no step changes a count
\* otherwise: each count moves by the add_ref constructions minus the
\* finalizations of the step (plus what the library itself does).
C1_RefcountSteps ==
    [][/\ \A w \in WrapperIds :
            /\ (wrappers[w].state = "unborn" /\ wrappers'[w].state = "alive")
                 => LET r == wrappers'[w].sp_track IN
                    /\ wrappers'[w].releases = 0
                    /\ wrappers'[w].add_ref
                         => /\ native'[r].refcount = native[r].refcount + 1
                            /\ wrappers'[w].addrefs = 1
                    /\ ~wrappers'[w].add_ref
                         => /\ native[r].alloc = "unallocated"
                            /\ native'[r].refcount = 1
                            /\ wrappers'[w].addrefs = 0
            /\ (wrappers[w].state = "alive" /\ wrappers'[w].state = "dead")
                 => LET r == wrappers[w].sp_track IN
                    /\ native'[r].refcount = native[r].refcount - 1
                    /\ wrappers'[w].releases = 1
                    /\ wrappers'[w].addrefs = wrappers[w].addrefs
            /\ wrappers'[w].state = wrappers[w].state => wrappers'[w] = wrappers[w]
            /\ wrappers[w].state = "dead" => wrappers'[w] = wrappers[w]
       /\ \A r \in Resources :
            native'[r].refcount - native[r].refcount
              = Cardinality({w \in Born(r) : wrappers'[w].add_ref})
                - Cardinality(Died(r)) + LibDelta(r)]_vars

\* a LocalTrack (add_ref false) and a Track (add_ref true) have both been
\* constructed and finalized
C1_Witness ==
    \E w \in WrapperIds, v \in WrapperIds :
        /\ wrappers[w].state = "dead" /\ ~wrappers[w].add_ref
        /\ wrappers[w].addrefs = 0 /\ wrappers[w].releases = 1
        /\ wrappers[v].state = "dead" /\ wrappers[v].add_ref
        /\ wrappers[v].addrefs = 1 /\ wrappers[v].releases = 1

\* C9: whatever the interleaving of constructions and finalizations, a
\* resource's count is the library's own reference plus one per live
\* wrapper of it (so at least the number of live wrappers), a resource with
\* a live wrapper is not freed, a wrapper has released once exactly when it
\* is dead, and with every wrapper finalized the count is back to the
\* library's own reference (nothing for an adopted one).
C9_RefcountCoversWrappers ==
    /\ \A r \in Resources :
        /\ native[r].refcount = (IF native[r].held THEN 1 ELSE 0) + Cardinality(AliveOn(r))
        /\ native[r].refcount >= Cardinality(AliveOn(r))
        /\ AliveOn(r) # {} => native[r].alloc = "live"
        /\ native[r].alloc = "live" <=> native[r].refcount > 0
    /\ \A w \in WrapperIds :
        /\ wrappers[w].state = "unborn" => wrappers[w].releases = 0
        /\ wrappers[w].state = "alive" => wrappers[w].releases = 0
        /\ wrappers[w].state = "dead" => wrappers[w].releases = 1

\* two wrappers of one resource were alive, one has been finalized, and the
\* library has dropped its reference: the other wrapper keeps it alive
C9_Witness ==
    \E w \in WrapperIds, v \in WrapperIds :
        /\ wrappers[w].state = "alive" /\ wrappers[v].state = "dead"
        /\ wrappers[w].sp_track = wrappers[v].sp_track
        /\ ~native[wrappers[w].sp_track].held
        /\ native[wrappers[w].sp_track].refcount = 1

\* C10: with a session active and error OK, playable returns a new wrapper,
\* distinct from self, constructed with add_ref true on the track the native
\* resolution returned: that track's count rises by exactly one, also when
\* it is self's own track, and self is untouched; and finalizing a wrapper
\* leaves every other live wrapper alive, its release not yet made and its
\* track not freed.
C10_PlayableOwnsReference ==
    [][/\ (CallOf({"playable"}) /\ session_instance # None
             /\ native[SelfTrack].error = 0)
            => /\ lastCall'.outcome = "return"
               /\ lastCall'.value.t = "Track"
               /\ Len(lastCall'.read) = 1
               /\ LET n == lastCall'.value.o
                      t == lastCall'.read[1] IN
                  /\ n # lastCall'.w
                  /\ wrappers[n].state = "unborn"
                  /\ wrappers'[n].state = "alive"
                  /\ wrappers'[n].sp_track = t
                  /\ wrappers'[n].add_ref
                  /\ native'[t].refcount = native[t].refcount + 1
                  /\ wrappers'[lastCall'.w] = wrappers[lastCall'.w]
                  /\ \A r \in Resources \ {t} : native'[r] = native[r]
       /\ \A v \in WrapperIds :
            (wrappers[v].state = "alive" /\ wrappers'[v].state = "dead")
            => \A w \in WrapperIds \ {v} :
                 wrappers[w].state = "alive"
                 => /\ wrappers'[w] = wrappers[w]
                    /\ native'[wrappers[w].sp_track].alloc = "live"
                    /\ native'[wrappers[w].sp_track].refcount
                         >= Cardinality({u \in WrapperIds :
                                /\ wrappers'[u].state = "alive"
                                /\ wrappers'[u].sp_track = wrappers[w].sp_track})]_vars

\* playable returned a wrapper of self's own track, that wrapper has been
\* finalized and the library has dropped its reference: self still holds one
C10_Witness ==
    /\ lastCall.op = "playable" /\ lastCall.outcome = "return"
    /\ wrappers[lastCall.value.o].state = "dead"
    /\ wrappers[lastCall.w].state = "alive"
    /\ wrappers[lastCall.value.o].sp_track = wrappers[lastCall.w].sp_track
    /\ native[wrappers[lastCall.w].sp_track].refcount = 1
====
